---------------------------- MODULE Spec2Model ----------------------------
(***************************************************************************)
(* A model of the CHIP-8 virtual machine of cormac-obrien/chip8:           *)
(*   src/src/instruction.rs  the decoder (Instruction::interpret)          *)
(*   src/src/main.rs         Display, Pc, Reg, Stack, Chip8::exec          *)
(*   src/src/types.rs        Addr(u16), RegId(u8), Val(u8)                 *)
(*                                                                         *)
(* Encodings.  The byte array mem: [u8; 4096] is kept as the function from *)
(* the addresses that hold a non-zero byte to that byte (every other       *)
(* address holds 0); the grid pixels: [[u8; 64]; 32] is kept as the set of *)
(* <<row, column>> pairs whose pixel is 1.  Both are read and written only *)
(* through MemGet/MemSet and PixelGet/PixelXor.                            *)
(*                                                                         *)
(* Builds.  u16 and usize arithmetic panics on overflow when the crate is  *)
(* built with overflow checks (the debug profile) and wraps otherwise (the *)
(* release profile).  The variable overflow_checks is the profile of the   *)
(* build; both are explored.  A panic ends the run: panicked becomes TRUE  *)
(* and no instruction executes afterwards.                                 *)
(***************************************************************************)
EXTENDS Integers, Sequences, FiniteSets, TLC

---------------------------------------------------------------------------
(* Widths and sizes fixed by the program. *)

\* mem: [u8; 4096]
MEM_SIZE == 4096
\* Stack.stack: [Addr; 16]
STACK_SIZE == 16
\* Display.pixels: [[u8; 64]; 32]
DISPLAY_WIDTH == 64
DISPLAY_HEIGHT == 32
\* Pc::new: Addr(0x200); Chip8::load copies the program to 0x200
PC_START == 512
\* Val(u8), Addr(u16)
U8_MOD == 256
U16_MOD == 65536
\* usize::MAX stands for itself: the value of 0usize.wrapping_sub(1).  It is
\* written -1 (its two's-complement reading) because 2^64 - 1 is beyond the
\* integers of the model checker; it is only ever compared and used as an index.
USIZE_MAX == -1

---------------------------------------------------------------------------
(* Bounds of the model. *)

\* a run is followed for at most MaxCycles instructions
MaxCycles == 40
\* the sprites drawn have 1..MaxSpriteLen rows (and one has all 15)
MaxSpriteLen == 2
\* the programs use the registers 0..MaxReg and 15 (VF) as operands
MaxReg == 1
\* register values come from 0..ValEdge, 128-ValEdge..128+ValEdge and
\* 255-ValEdge..255, and from the values of the spec's examples
ValEdge == 1

---------------------------------------------------------------------------
(* Fixed-width arithmetic. *)

RECURSIVE BitAnd(_, _)
BitAnd(a, b) ==
    IF a = 0 \/ b = 0 THEN 0
    ELSE (a % 2) * (b % 2) + 2 * BitAnd(a \div 2, b \div 2)

RECURSIVE BitOr(_, _)
BitOr(a, b) ==
    IF a = 0 THEN b
    ELSE IF b = 0 THEN a
    ELSE (IF a % 2 = 1 \/ b % 2 = 1 THEN 1 ELSE 0) + 2 * BitOr(a \div 2, b \div 2)

\* a ^ b on single bits
BitXor1(a, b) == (a + b) % 2

\* x >> s, and x << s truncated to u8, as the operators of u8 compute them
ShiftRight(v, s) == v \div (2 ^ s)
ShiftLeftU8(v, s) == (v * (2 ^ s)) % U8_MOD

\* The result of a u16 operation whose mathematical value is v: the wrapped
\* value, and whether the operation overflowed.
WrapU16(v) == [val |-> v % U16_MOD, ovf |-> v < 0 \/ v >= U16_MOD]

\* u8::overflowing_add / overflowing_sub: (wrapped value, overflow flag)
OverflowingAdd(a, b) == [val |-> (a + b) % U8_MOD, carry |-> a + b >= U8_MOD]
OverflowingSub(a, b) == [val |-> (a - b) % U8_MOD, carry |-> a - b < 0]

---------------------------------------------------------------------------
(* instruction.rs: the decoder. *)

\* fn bytes(x: u16) -> [u8; 2]: [hi, lo]; a sequence, so b[1] of the source
\* (the low byte) is bytes(x)[2] here.
bytes(x) ==
    LET lo == BitAnd(x, 255) % U8_MOD
        hi == ShiftRight(x, 8) % U8_MOD
    IN <<hi, lo>>

\* nibbles filled in the order of the loop: result[i] = (x >> 4i) & 0xF
nibbles_reversed(x) ==
    [j \in 1..4 |-> BitAnd(ShiftRight(x, 4 * (j - 1)), 15) % U8_MOD]

\* fn nibbles(x: u16) -> [u8; 4]: result[3 - i] = (x >> 4i) & 0xF; n[j] of
\* the source is nibbles(x)[j + 1] here.
nibbles(x) ==
    [j \in 1..4 |-> BitAnd(ShiftRight(x, 4 * (3 - (j - 1))), 15) % U8_MOD]

None == [op |-> "None"]

\* Instruction::interpret(opcode: u16) -> Option<Instruction>
interpret(opcode) ==
    LET b == bytes(opcode)
        n == nibbles(opcode)
        tail == BitAnd(opcode, 4095)
        x == n[2]
        y == n[3]
        n0 == n[1]
        n3 == n[4]
        b1 == b[2]
    IN CASE n0 = 0 ->
              (CASE tail = 224 -> [op |-> "Cls"]
                 [] tail = 238 -> [op |-> "Ret"]
                 [] OTHER -> None)
         [] n0 = 1 -> [op |-> "Jump", addr |-> tail]
         [] n0 = 2 -> [op |-> "Call", addr |-> tail]
         [] n0 = 3 -> [op |-> "SeVal", x |-> x, k |-> b1]
         [] n0 = 4 -> [op |-> "SneVal", x |-> x, k |-> b1]
         [] n0 = 5 ->
              (CASE n3 = 0 -> [op |-> "SeReg", x |-> x, y |-> y]
                 [] OTHER -> None)
         [] n0 = 6 -> [op |-> "LdVal", x |-> x, k |-> b1]
         [] n0 = 7 -> [op |-> "AddVal", x |-> x, k |-> b1]
         [] n0 = 8 ->
              (CASE n3 = 0 -> [op |-> "LdReg", x |-> x, y |-> y]
                 [] n3 = 1 -> [op |-> "Or", x |-> x, y |-> y]
                 [] n3 = 2 -> [op |-> "And", x |-> x, y |-> y]
                 [] n3 = 3 -> [op |-> "Xor", x |-> x, y |-> y]
                 [] n3 = 4 -> [op |-> "AddReg", x |-> x, y |-> y]
                 [] n3 = 5 -> [op |-> "Sub", x |-> x, y |-> y]
                 [] n3 = 6 -> [op |-> "Shr", x |-> x]
                 [] n3 = 7 -> [op |-> "SubN", x |-> x, y |-> y]
                 [] n3 = 14 -> [op |-> "Shl", x |-> x]
                 [] OTHER -> None)
         [] n0 = 9 ->
              (CASE n3 = 0 -> [op |-> "SneReg", x |-> x, y |-> y]
                 [] OTHER -> None)
         [] n0 = 10 -> [op |-> "LdI", addr |-> tail]
         [] n0 = 11 -> [op |-> "JpOfs", addr |-> tail]
         [] n0 = 12 -> [op |-> "Rnd", x |-> x, k |-> b1]
         [] n0 = 13 -> [op |-> "Drw", x |-> x, y |-> y, n |-> n3]
         [] n0 = 14 ->
              (CASE b1 = 158 -> [op |-> "Skp", x |-> x]
                 [] b1 = 161 -> [op |-> "Sknp", x |-> x]
                 [] OTHER -> None)
         [] n0 = 15 ->
              (CASE b1 = 7 -> [op |-> "Dt", x |-> x]
                 [] b1 = 10 -> [op |-> "LdKey", x |-> x]
                 [] b1 = 21 -> [op |-> "LdDt", x |-> x]
                 [] b1 = 24 -> [op |-> "LdSt", x |-> x]
                 [] b1 = 30 -> [op |-> "AddI", x |-> x]
                 [] b1 = 41 -> [op |-> "LdDigit", x |-> x]
                 [] b1 = 51 -> [op |-> "Bcd", x |-> x]
                 [] b1 = 85 -> [op |-> "Store", x |-> x]
                 [] b1 = 101 -> [op |-> "Read", x |-> x]
                 [] OTHER -> None)
         \* _ => unimplemented!()
         [] OTHER -> [op |-> "Panic"]


---------------------------------------------------------------------------
(* main.rs: the machine's state. *)

VARIABLES
    mem,             \* Chip8.mem
    register_v,      \* Chip8.register_v: [Reg; 16]
    register_i,      \* Chip8.register_i: Addr
    delay,           \* Chip8.delay
    sound,           \* Chip8.sound
    pc,              \* Chip8.pc: Pc(Addr)
    sp,              \* Chip8.stack.sp: usize
    stack,           \* Chip8.stack.stack: [Addr; 16], indexed 0..15
    pixels,          \* Chip8.display.pixels
    panicked,        \* the process has panicked: the run is over
    overflow_checks, \* the build panics on integer overflow (debug profile)
    loaded,          \* Chip8::load has run
    cycles,          \* history: the number of instructions executed
    last,            \* history: the last two instructions and the states they ran in
    stored           \* history: the last Store and the registers it ran with

machine == <<mem, register_v, register_i, delay, sound, pc, sp, stack, pixels>>
vars == <<machine, panicked, overflow_checks, loaded, cycles, last, stored>>

\* self.mem[a]
MemGet(m, a) == IF a \in DOMAIN m THEN m[a] ELSE 0

\* self.mem[a] = v
MemSet(m, a, v) ==
    IF v = 0
    THEN [b \in (DOMAIN m) \ {a} |-> m[b]]
    ELSE [b \in (DOMAIN m) \cup {a} |-> IF b = a THEN v ELSE m[b]]

\* &self.mem[from..from + len] as a sequence of bytes
MemSlice(m, from, len) == [k \in 1..len |-> MemGet(m, from + (k - 1))]

\* self.pixels[r][c]
PixelGet(p, r, c) == IF <<r, c>> \in p THEN 1 ELSE 0

\* self.pixels[r][c] ^= bit
PixelXor(p, r, c, bit) ==
    IF BitXor1(PixelGet(p, r, c), bit) = 1 THEN p \cup {<<r, c>>} ELSE p \ {<<r, c>>}

\* The state an instruction runs in, kept in last.pre.
Snapshot ==
    [mem |-> mem, register_v |-> register_v, register_i |-> register_i,
     delay |-> delay, sound |-> sound, pc |-> pc, sp |-> sp, stack |-> stack,
     pixels |-> pixels]

NoInstr == [op |-> "none"]
NoStore == [valid |-> FALSE]

\* The builds of the crate: with and without overflow checks.
Builds == BOOLEAN

\* Chip8::new, before any program is loaded
InitMachine ==
    /\ mem = <<>>
    /\ register_v = [r \in 0..15 |-> 0]
    /\ register_i = 0
    /\ delay = 0
    /\ sound = 0
    /\ pc = PC_START
    /\ sp = 0
    /\ stack = [s \in 0..(STACK_SIZE - 1) |-> 0]
    /\ pixels = {}
    /\ panicked = FALSE
    /\ loaded = FALSE
    /\ cycles = 0
    /\ last = [opcode |-> 0, instr |-> NoInstr, pre |-> Snapshot,
               prev |-> [instr |-> NoInstr, pre |-> Snapshot]]
    /\ stored = NoStore
    /\ overflow_checks \in Builds

---------------------------------------------------------------------------
(* main.rs: Pc, Reg, Stack, Display. *)

\* A u16 result r panics the build that checks overflow.
Checked(r) == overflow_checks /\ r.ovf

\* Pc::increment: (self.0).0 + 2
PcIncrement(p) == WrapU16(p + 2)

\* Pc::increment_cond: (self.0).0 + 2 * (cond as u16)
PcIncrementCond(p, cond) == WrapU16(p + 2 * (IF cond THEN 1 ELSE 0))

\* Pc::jump: addr.0 - 2
PcJump(addr) == WrapU16(addr - 2)

\* the carry of an addition that reaches exactly 256 is lost
RegAdd_carry_above(v, k) == [val |-> (v + k) % U8_MOD, carry |-> v + k > U8_MOD]

\* a subtraction of equal values reports a borrow
RegSub_borrow_on_equal(v, k) == [val |-> (v - k) % U8_MOD, carry |-> v - k <= 0]

\* Reg::add: the new value and the carry returned
RegAdd(v, k) == OverflowingAdd(v, k)

\* Reg::sub: the new value and the carry (borrow) returned
RegSub(v, k) == OverflowingSub(v, k)

\* Reg::shr, Reg::shl: the new value (neither returns anything)
RegShr(v) == ShiftRight(v, 1)
RegShl(v) == ShiftLeftU8(v, 1)

\* self.stack[i] is in bounds
StackIndexOk(i) == i \in 0..(STACK_SIZE - 1)

\* Stack::push: self.stack[self.sp] = addr; self.sp += 1
StackPush(st, s, addr) ==
    IF ~StackIndexOk(s)
    THEN [panic |-> TRUE, stack |-> st, sp |-> s]
    ELSE [panic |-> FALSE, stack |-> [st EXCEPT ![s] = addr], sp |-> s + 1]

\* The slot Stack::pop reads: self.stack[self.sp]
PopSlot(s) == s

\* Stack::pop: let addr = self.stack[self.sp]; self.sp -= 1; addr
StackPop(st, s) ==
    IF ~StackIndexOk(PopSlot(s))
    THEN [panic |-> TRUE, addr |-> 0, sp |-> s]
    ELSE IF s = 0
    THEN [panic |-> overflow_checks, addr |-> st[PopSlot(s)], sp |-> USIZE_MAX]
    ELSE [panic |-> FALSE, addr |-> st[PopSlot(s)], sp |-> s - 1]

\* Display::draw, the guards "don't draw off the screen"
OffScreenY(y, y_ofs) == y + y_ofs >= DISPLAY_HEIGHT

\* the column guard off by one: the column 64 passes
OffScreenX_past_edge(x, x_ofs) == x + x_ofs > DISPLAY_WIDTH

OffScreenX(x, x_ofs) == x + x_ofs >= DISPLAY_WIDTH

\* Display::draw, the bit of the sprite byte drawn at column offset x_ofs:
\* (byte >> shift) & 1 with shift = 7 - x_ofs, from (0..8).rev().enumerate()
SpriteBit(byte, x_ofs) == BitAnd(ShiftRight(byte, 7 - x_ofs), 1)

\* Display::draw, what the collision flag is or-ed with after the write of
\* bit: self.pixels[y.0][x.0] != bit, read from the grid as just written
CollisionTerm(p, x, y, bit) == PixelGet(p, y, x) # bit

\* self.pixels[r][c] is in bounds (else the index panics)
PixelIndexOk(r, c) == r \in 0..(DISPLAY_HEIGHT - 1) /\ c \in 0..(DISPLAY_WIDTH - 1)

\* Display::draw, the inner loop over the bits of one sprite byte:
\*   if x + x_ofs >= self.pixels[0].len() { break; }
\*   self.pixels[y + y_ofs][x + x_ofs] ^= bit;
\*   collision = collision || self.pixels[y][x] != bit;
\* d is the grid and the flag so far, and whether an index has panicked.
RECURSIVE DrawRow(_, _, _, _, _, _)
DrawRow(d, x, y, y_ofs, byte, x_ofs) ==
    IF d.panic \/ x_ofs >= 8 \/ OffScreenX(x, x_ofs) THEN d
    ELSE IF ~PixelIndexOk(y + y_ofs, x + x_ofs) THEN [d EXCEPT !.panic = TRUE]
    ELSE LET bit == SpriteBit(byte, x_ofs)
             p2 == PixelXor(d.pixels, y + y_ofs, x + x_ofs, bit)
         IN IF d.collision
            THEN DrawRow([pixels |-> p2, collision |-> TRUE, panic |-> FALSE],
                         x, y, y_ofs, byte, x_ofs + 1)
            ELSE DrawRow([pixels |-> p2, collision |-> CollisionTerm(p2, x, y, bit),
                          panic |-> ~PixelIndexOk(y, x)],
                         x, y, y_ofs, byte, x_ofs + 1)

\* Display::draw, the outer loop over the bytes of the sprite:
\*   if y + y_ofs >= self.pixels.len() { break; }
RECURSIVE DrawRows(_, _, _, _, _)
DrawRows(d, x, y, sprite, y_ofs) ==
    IF d.panic \/ y_ofs >= Len(sprite) \/ OffScreenY(y, y_ofs) THEN d
    ELSE DrawRows(DrawRow(d, x, y, y_ofs, sprite[y_ofs + 1], 0), x, y, sprite, y_ofs + 1)

\* Display::draw(x, y, sprite) -> bool
DisplayDraw(p, x, y, sprite) ==
    DrawRows([pixels |-> p, collision |-> FALSE, panic |-> FALSE], x, y, sprite, 0)

\* Chip8::set_carry
SetCarry(v, carry) == [v EXCEPT ![15] = IF carry THEN 1 ELSE 0]

---------------------------------------------------------------------------
(* main.rs: Chip8::exec.  Each arm of the match maps the machine state s (a *)
(* Snapshot with a panic flag) to the state after the arm.                  *)

Current ==
    [mem |-> mem, register_v |-> register_v, register_i |-> register_i,
     delay |-> delay, sound |-> sound, pc |-> pc, sp |-> sp, stack |-> stack,
     pixels |-> pixels, panic |-> FALSE]

Panicking(s) == [s EXCEPT !.panic = TRUE]

\* the result r of a u16 operation goes to the program counter
SetPc(s, r) == IF Checked(r) THEN Panicking(s) ELSE [s EXCEPT !.pc = r.val]

\* the result r of a u16 operation goes to the index register
SetI(s, r) == IF Checked(r) THEN Panicking(s) ELSE [s EXCEPT !.register_i = r.val]

\* self.reg_mut(x).set(k)
SetReg(s, x, k) == [s EXCEPT !.register_v[x] = k]

\* Sys, Rnd, Skp, Sknp, LdKey, LdDigit => unimplemented!()
ArmUnimplemented(s) == Panicking(s)

\* Cls => self.display.clear()
ArmCls(s) == [s EXCEPT !.pixels = {}]

\* Ret => { let addr = self.stack.pop(); self.pc.jump(addr); }
ArmRet(s) ==
    LET p == StackPop(s.stack, s.sp)
    IN IF p.panic THEN Panicking(s)
       ELSE SetPc([s EXCEPT !.sp = p.sp], PcJump(p.addr))

\* Jump { addr } => self.pc.jump(addr)
ArmJump(s, addr) == SetPc(s, PcJump(addr))

\* Call { addr } => { self.stack.push(self.pc.get()); self.pc.jump(addr); }
ArmCall(s, addr) ==
    LET p == StackPush(s.stack, s.sp, s.pc)
    IN IF p.panic THEN Panicking(s)
       ELSE SetPc([s EXCEPT !.stack = p.stack, !.sp = p.sp], PcJump(addr))

\* SeVal { x, k } => self.pc.increment_cond(self.reg(x).get() == k)
ArmSeVal(s, x, k) == SetPc(s, PcIncrementCond(s.pc, s.register_v[x] = k))

\* SneVal { x, k } => self.pc.increment_cond(self.reg(x).get() != k)
ArmSneVal(s, x, k) == SetPc(s, PcIncrementCond(s.pc, s.register_v[x] # k))

\* SeReg { x, y } => increment_cond(self.reg(x).get() == self.reg(y).get())
ArmSeReg(s, x, y) ==
    SetPc(s, PcIncrementCond(s.pc, s.register_v[x] = s.register_v[y]))

\* SneReg { x, y } => increment_cond(self.reg(x).get() == self.reg(y).get())
ArmSneReg(s, x, y) ==
    SetPc(s, PcIncrementCond(s.pc, s.register_v[x] = s.register_v[y]))

\* LdVal { x, k } => self.reg_mut(x).set(k)
ArmLdVal(s, x, k) == SetReg(s, x, k)

\* AddVal { x, k } => { let _carry = self.reg_mut(x).add(k); }
ArmAddVal(s, x, k) == SetReg(s, x, RegAdd(s.register_v[x], k).val)

\* LdReg { x, y } => set Vx to Vy
ArmLdReg(s, x, y) == SetReg(s, x, s.register_v[y])

\* Or { x, y } => set(Val(*x_val | *y_val))
ArmOr(s, x, y) == SetReg(s, x, BitOr(s.register_v[x], s.register_v[y]))

\* And { x, y } => set(Val(*x_val & *y_val))
ArmAnd(s, x, y) == SetReg(s, x, BitAnd(s.register_v[x], s.register_v[y]))

\* Xor { x, y } => set(Val(*x_val & *y_val))
ArmXor(s, x, y) == SetReg(s, x, BitAnd(s.register_v[x], s.register_v[y]))

\* AddReg { x, y } => { let carry = self.reg_mut(x).add(y_val); self.set_carry(carry); }
ArmAddReg(s, x, y) ==
    LET r == RegAdd(s.register_v[x], s.register_v[y])
    IN [s EXCEPT !.register_v = SetCarry([@ EXCEPT ![x] = r.val], r.carry)]

\* Sub { x, y } => { let not_carry = !self.reg_mut(x).sub(y_val); self.set_carry(not_carry); }
ArmSub(s, x, y) ==
    LET r == RegSub(s.register_v[x], s.register_v[y])
    IN [s EXCEPT !.register_v = SetCarry([@ EXCEPT ![x] = r.val], ~r.carry)]

\* SubN { x, y } => { let not_carry = !self.reg_mut(y).sub(x_val); self.set_carry(not_carry); }
ArmSubN(s, x, y) ==
    LET r == RegSub(s.register_v[y], s.register_v[x])
    IN [s EXCEPT !.register_v = SetCarry([@ EXCEPT ![y] = r.val], ~r.carry)]

\* Shr { x } => self.reg_mut(x).shr()
ArmShr(s, x) == SetReg(s, x, RegShr(s.register_v[x]))

\* Shl { x } => self.reg_mut(x).shl()
ArmShl(s, x) == SetReg(s, x, RegShl(s.register_v[x]))

\* LdI { addr } => self.register_i = addr
ArmLdI(s, addr) == [s EXCEPT !.register_i = addr]

\* JpOfs { addr } => self.register_i = Addr(addr.0 + v0_val)
ArmJpOfs(s, addr) == SetI(s, WrapU16(addr + s.register_v[0]))

\* Drw { x, y, n } => draw the slice mem[I..I + n] at (Vx, Vy), set_carry(collision)
ArmDrw(s, x, y, n) ==
    IF s.register_i + n > MEM_SIZE THEN Panicking(s)
    ELSE LET d == DisplayDraw(s.pixels, s.register_v[x], s.register_v[y],
                              MemSlice(s.mem, s.register_i, n))
         IN IF d.panic THEN Panicking(s)
            ELSE [s EXCEPT !.pixels = d.pixels,
                           !.register_v = SetCarry(@, d.collision)]

\* Dt { x } => self.reg_mut(x).set(Val(self.delay))
ArmDt(s, x) == SetReg(s, x, s.delay)

\* LdDt { x } => self.delay = self.reg(x).get().0
ArmLdDt(s, x) == [s EXCEPT !.delay = s.register_v[x]]

\* LdSt { x } => self.sound = self.reg(x).get().0
ArmLdSt(s, x) == [s EXCEPT !.sound = s.register_v[x]]

\* AddI { x } => self.register_i = Addr(self.register_i.0 + Vx as u16)
ArmAddI(s, x) == SetI(s, WrapU16(s.register_i + s.register_v[x]))

\* the digits written lowest first: ones, tens, hundreds
ArmBcd_ones_first(s, x) ==
    LET x_val == s.register_v[x]
        i == s.register_i
    IN IF i + 2 >= MEM_SIZE THEN Panicking(s)
       ELSE [s EXCEPT !.mem = MemSet(MemSet(MemSet(@, i, x_val % 10),
                                            i + 1, (x_val \div 10) % 10),
                                     i + 2, (x_val \div 100) % 10)]

\* Bcd { x } => hundreds, tens, ones of Vx to mem[I], mem[I + 1], mem[I + 2]
ArmBcd(s, x) ==
    LET x_val == s.register_v[x]
        ones == x_val % 10
        tens == (x_val \div 10) % 10
        hundreds == ((x_val \div 10) \div 10) % 10
        i == s.register_i
    IN IF i + 2 >= MEM_SIZE THEN Panicking(s)
       ELSE [s EXCEPT !.mem = MemSet(MemSet(MemSet(@, i, hundreds), i + 1, tens),
                                     i + 2, ones)]

\* The registers the loops of Store and Read visit: for k in 0..x.0
LoopRange(x) == 0..(x - 1)

\* Store { x } => for k in 0..x.0 { self.mem[I + k] = Vk }
RECURSIVE StoreLoop(_, _, _, _, _)
StoreLoop(m, i, v, k, x) ==
    IF k \notin LoopRange(x) THEN m
    ELSE StoreLoop(MemSet(m, i + k, v[k]), i, v, k + 1, x)

ArmStore(s, x) ==
    IF \E k \in LoopRange(x) : s.register_i + k >= MEM_SIZE THEN Panicking(s)
    ELSE [s EXCEPT !.mem = StoreLoop(@, s.register_i, s.register_v, 0, x)]

\* Read { x } => for k in 0..x.0 { Vk = self.mem[I + k] }
ArmRead(s, x) ==
    IF \E k \in LoopRange(x) : s.register_i + k >= MEM_SIZE THEN Panicking(s)
    ELSE [s EXCEPT !.register_v =
              [r \in 0..15 |-> IF r \in LoopRange(x)
                               THEN MemGet(s.mem, s.register_i + r) ELSE @[r]]]

\* the match of Chip8::exec
Arm(s, instr) ==
    CASE instr.op = "Cls" -> ArmCls(s)
      [] instr.op = "Ret" -> ArmRet(s)
      [] instr.op = "Jump" -> ArmJump(s, instr.addr)
      [] instr.op = "Call" -> ArmCall(s, instr.addr)
      [] instr.op = "SeVal" -> ArmSeVal(s, instr.x, instr.k)
      [] instr.op = "SneVal" -> ArmSneVal(s, instr.x, instr.k)
      [] instr.op = "SeReg" -> ArmSeReg(s, instr.x, instr.y)
      [] instr.op = "LdVal" -> ArmLdVal(s, instr.x, instr.k)
      [] instr.op = "AddVal" -> ArmAddVal(s, instr.x, instr.k)
      [] instr.op = "LdReg" -> ArmLdReg(s, instr.x, instr.y)
      [] instr.op = "Or" -> ArmOr(s, instr.x, instr.y)
      [] instr.op = "And" -> ArmAnd(s, instr.x, instr.y)
      [] instr.op = "Xor" -> ArmXor(s, instr.x, instr.y)
      [] instr.op = "AddReg" -> ArmAddReg(s, instr.x, instr.y)
      [] instr.op = "Sub" -> ArmSub(s, instr.x, instr.y)
      [] instr.op = "Shr" -> ArmShr(s, instr.x)
      [] instr.op = "SubN" -> ArmSubN(s, instr.x, instr.y)
      [] instr.op = "Shl" -> ArmShl(s, instr.x)
      [] instr.op = "SneReg" -> ArmSneReg(s, instr.x, instr.y)
      [] instr.op = "LdI" -> ArmLdI(s, instr.addr)
      [] instr.op = "JpOfs" -> ArmJpOfs(s, instr.addr)
      [] instr.op = "Drw" -> ArmDrw(s, instr.x, instr.y, instr.n)
      [] instr.op = "Dt" -> ArmDt(s, instr.x)
      [] instr.op = "LdDt" -> ArmLdDt(s, instr.x)
      [] instr.op = "LdSt" -> ArmLdSt(s, instr.x)
      [] instr.op = "AddI" -> ArmAddI(s, instr.x)
      [] instr.op = "Bcd" -> ArmBcd(s, instr.x)
      [] instr.op = "Store" -> ArmStore(s, instr.x)
      [] instr.op = "Read" -> ArmRead(s, instr.x)
      [] OTHER -> ArmUnimplemented(s)

\* Chip8::exec: the match, then self.pc.increment()
ExecResult(s, instr) ==
    LET a == Arm(s, instr)
    IN IF a.panic THEN a ELSE SetPc(a, PcIncrement(a.pc))

---------------------------------------------------------------------------
(* main.rs: main, Chip8::load and the loop of Chip8::start. *)

\* f.read_exact(&mut self.mem[base..base + len]): the slice takes the bytes
MemCopy(m, base, rom) ==
    LET slice == base..(base + Len(rom) - 1)
        nonzero == {a \in slice : rom[a - base + 1] # 0}
    IN [a \in ((DOMAIN m) \ slice) \cup nonzero |->
           IF a \in slice THEN rom[a - base + 1] ELSE m[a]]

\* Chip8::load: the file's bytes go to mem[0x200..0x200 + len]
Load(rom) ==
    /\ ~loaded
    /\ ~panicked
    /\ loaded' = TRUE
    /\ IF PC_START + Len(rom) > MEM_SIZE
       THEN /\ panicked' = TRUE
            /\ UNCHANGED mem
       ELSE /\ panicked' = FALSE
            /\ mem' = MemCopy(mem, PC_START, rom)
    /\ UNCHANGED <<register_v, register_i, delay, sound, pc, sp, stack, pixels,
                   overflow_checks, cycles, last, stored>>

\* The opcode the loop reads: read_u16::<BigEndian> of mem[pc..pc + 2]
FetchPanics == pc + 2 > MEM_SIZE
Fetch == MemGet(mem, pc) * 256 + MemGet(mem, pc + 1)

\* history: the Store that a later Read is compared with.  It stays while
\* only LdVal overwrites registers, and goes with any other instruction.
NextStored(instr, ok) ==
    IF ~ok THEN NoStore
    ELSE IF instr.op = "Store"
    THEN [valid |-> TRUE, x |-> instr.x, register_i |-> register_i,
          register_v |-> register_v]
    ELSE IF instr.op \in {"LdVal", "Read"} THEN stored
    ELSE NoStore

\* history: the instruction of this cycle and the state it runs in, and
\* the same of the cycle before
Executed(op, instr) ==
    [opcode |-> op, instr |-> instr, pre |-> Snapshot,
     prev |-> [instr |-> last.instr, pre |-> last.pre]]

\* the machine's variables take the fields of r
Becomes(r) ==
    /\ mem' = r.mem
    /\ register_v' = r.register_v
    /\ register_i' = r.register_i
    /\ delay' = r.delay
    /\ sound' = r.sound
    /\ pc' = r.pc
    /\ sp' = r.sp
    /\ stack' = r.stack
    /\ pixels' = r.pixels

\* One iteration of the loop of Chip8::start: fetch, interpret(..).unwrap(),
\* exec.  A panic anywhere ends the run.
Cycle ==
    /\ loaded
    /\ ~panicked
    /\ cycles < MaxCycles
    /\ cycles' = cycles + 1
    /\ UNCHANGED <<overflow_checks, loaded>>
    /\ IF FetchPanics
       THEN /\ panicked' = TRUE
            /\ last' = Executed(0, [op |-> "FetchPanic"])
            /\ stored' = NoStore
            /\ UNCHANGED machine
       ELSE LET instr == interpret(Fetch)
                r == IF instr.op \in {"None", "Panic"} THEN Panicking(Current)
                     ELSE ExecResult(Current, instr)
            IN /\ panicked' = r.panic
               /\ last' = Executed(Fetch, instr)
               /\ stored' = NextStored(instr, ~r.panic)
               /\ IF r.panic THEN UNCHANGED machine ELSE Becomes(r)

---------------------------------------------------------------------------
(* Programs.  A program is a sequence of opcodes, assembled big-endian into *)
(* the bytes of a ROM image, possibly followed by data bytes.               *)

Asm(ops) ==
    [k \in 1..(2 * Len(ops)) |->
        IF k % 2 = 1 THEN ops[(k + 1) \div 2] \div 256 ELSE ops[k \div 2] % 256]

OpCls == 224
OpRet == 238
OpJump(addr) == 4096 + addr
OpCall(addr) == 8192 + addr
OpLdVal(x, k) == 24576 + 256 * x + k
OpAddReg(x, y) == 32768 + 256 * x + 16 * y + 4
OpSub(x, y) == 32768 + 256 * x + 16 * y + 5
OpShr(x, y) == 32768 + 256 * x + 16 * y + 6
OpSubN(x, y) == 32768 + 256 * x + 16 * y + 7
OpShl(x, y) == 32768 + 256 * x + 16 * y + 14
OpLdI(addr) == 40960 + addr
OpDrw(x, y, n) == 53248 + 256 * x + 16 * y + n
OpStore(x) == 61440 + 256 * x + 85
OpRead(x) == 61440 + 256 * x + 101
OpSeVal(x, k) == 12288 + 256 * x + k
OpSneVal(x, k) == 16384 + 256 * x + k
OpSeReg(x, y) == 20480 + 256 * x + 16 * y
OpOr(x, y) == 32768 + 256 * x + 16 * y + 1
OpAnd(x, y) == 32768 + 256 * x + 16 * y + 2
OpXor(x, y) == 32768 + 256 * x + 16 * y + 3
OpSneReg(x, y) == 36864 + 256 * x + 16 * y
OpJpOfs(addr) == 45056 + addr
OpAddI(x) == 61440 + 256 * x + 30
OpBcd(x) == 61440 + 256 * x + 51

\* operands of the programs
RegIds == (0..MaxReg) \cup {15}
Vals ==
    (0..ValEdge) \cup ((128 - ValEdge)..(128 + ValEdge)) \cup ((255 - ValEdge)..255)
        \cup {1, 3, 5, 129, 255}

\* every two-byte ROM: one opcode of each of the 65536 values
DecodeRoms == {Asm(<<op>>) : op \in 0..(U16_MOD - 1)}

\* main: load one of the programs, then start
LoadOneOf(roms) == ~loaded /\ \E rom \in roms : Load(rom)

DecodeNext == LoadOneOf(DecodeRoms) \/ Cycle
SpecDecode == InitMachine /\ [][DecodeNext]_vars

---------------------------------------------------------------------------
(* The decoder against the opcode table. *)

\* The opcode table, row by row, on the hexadecimal digits of the opcode:
\* 00E0 Cls, 00EE Ret, 1nnn Jump, 2nnn Call, 3xkk SeVal, 4xkk SneVal,
\* 5xy0 SeReg, 6xkk LdVal, 7xkk AddVal, 8xy0..8xy7 and 8xyE the ALU
\* operations, 9xy0 SneReg, Annn LdI, Bnnn JpOfs, Cxkk Rnd, Dxyn Drw,
\* Ex9E Skp, ExA1 Sknp, Fx07..Fx65 the timer, index and memory operations.
TableRow(op) ==
    LET d1 == op \div 4096
        d2 == (op \div 256) % 16
        d3 == (op \div 16) % 16
        d4 == op % 16
        kk == op % 256
        nnn == op % 4096
        xy(name) == [op |-> name, x |-> d2, y |-> d3]
        xk(name) == [op |-> name, x |-> d2, k |-> kk]
        x1(name) == [op |-> name, x |-> d2]
        a(name) == [op |-> name, addr |-> nnn]
    IN CASE op = 224 -> [op |-> "Cls"]
         [] op = 238 -> [op |-> "Ret"]
         [] d1 = 1 -> a("Jump")
         [] d1 = 2 -> a("Call")
         [] d1 = 3 -> xk("SeVal")
         [] d1 = 4 -> xk("SneVal")
         [] d1 = 5 /\ d4 = 0 -> xy("SeReg")
         [] d1 = 6 -> xk("LdVal")
         [] d1 = 7 -> xk("AddVal")
         [] d1 = 8 /\ d4 = 0 -> xy("LdReg")
         [] d1 = 8 /\ d4 = 1 -> xy("Or")
         [] d1 = 8 /\ d4 = 2 -> xy("And")
         [] d1 = 8 /\ d4 = 3 -> xy("Xor")
         [] d1 = 8 /\ d4 = 4 -> xy("AddReg")
         [] d1 = 8 /\ d4 = 5 -> xy("Sub")
         [] d1 = 8 /\ d4 = 6 -> x1("Shr")
         [] d1 = 8 /\ d4 = 7 -> xy("SubN")
         [] d1 = 8 /\ d4 = 14 -> x1("Shl")
         [] d1 = 9 /\ d4 = 0 -> xy("SneReg")
         [] d1 = 10 -> a("LdI")
         [] d1 = 11 -> a("JpOfs")
         [] d1 = 12 -> xk("Rnd")
         [] d1 = 13 -> [op |-> "Drw", x |-> d2, y |-> d3, n |-> d4]
         [] d1 = 14 /\ kk = 158 -> x1("Skp")
         [] d1 = 14 /\ kk = 161 -> x1("Sknp")
         [] d1 = 15 /\ kk = 7 -> x1("Dt")
         [] d1 = 15 /\ kk = 10 -> x1("LdKey")
         [] d1 = 15 /\ kk = 21 -> x1("LdDt")
         [] d1 = 15 /\ kk = 24 -> x1("LdSt")
         [] d1 = 15 /\ kk = 30 -> x1("AddI")
         [] d1 = 15 /\ kk = 41 -> x1("LdDigit")
         [] d1 = 15 /\ kk = 51 -> x1("Bcd")
         [] d1 = 15 /\ kk = 85 -> x1("Store")
         [] d1 = 15 /\ kk = 101 -> x1("Read")
         [] OTHER -> [op |-> "None"]

\* the last cycle fetched an opcode and handed it to the decoder
Decoded == last.instr.op \notin {"none", "FetchPanic"}

\* C1: for every 16-bit opcode, interpret returns the instruction, with its
\* operands, that the opcode table assigns to the opcode, or None when no
\* row of the table matches; it never panics and never returns Sys.
C1_DecodeMatchesTable ==
    Decoded =>
        /\ last.instr = TableRow(last.opcode)
        /\ last.instr.op \notin {"Panic", "Sys"}

\* C1 witness: the opcode DABC was decoded to Drw { x: A, y: B, n: C }.
C1_Witness ==
    /\ last.opcode = 55996
    /\ last.instr = [op |-> "Drw", x |-> 10, y |-> 11, n |-> 12]

---------------------------------------------------------------------------
(* Call and Ret. *)

\* k nested calls, each to the instruction after it, then j returns
CallChain(k, j) ==
    Asm([i \in 1..(k + j) |-> IF i <= k THEN OpCall(PC_START + 2 * i) ELSE OpRet])

\* the chains up to one call more than the stack holds; a subroutine that
\* calls itself for ever; a call to a subroutine further on that returns
StackRoms ==
    {CallChain(k, j) : k \in 0..(STACK_SIZE + 1), j \in 0..3}
        \cup {Asm(<<OpCall(PC_START)>>)}
        \cup {Asm(<<OpCall(PC_START + 6), OpCls, OpJump(PC_START + 2), OpRet>>)}

StackNext == LoadOneOf(StackRoms) \/ Cycle
SpecStack == InitMachine /\ [][StackNext]_vars

\* the last two cycles executed Call and then Ret
CallThenRet ==
    /\ last.instr.op = "Ret"
    /\ last.prev.instr.op = "Call"

\* C2 as claimed: Call followed at once by Ret, entered at any depth d in
\* 0..15, leaves the program counter at the value it held before the Call
\* (that address, or the instruction after it when the +2 advance is
\* counted on top) and the stack depth at d.
C2_CallRetRoundTrip ==
    (CallThenRet /\ last.prev.pre.sp \in 0..(STACK_SIZE - 1)) =>
        /\ ~panicked
        /\ pc \in {last.prev.pre.pc, last.prev.pre.pc + 2}
        /\ sp = last.prev.pre.sp

\* C3 as claimed: a Call with 16 addresses on the stack and a Ret with none
\* end the run in a fault, and the depth of a running machine is in 0..16.
C3_StackBound ==
    /\ (last.instr.op = "Call" /\ last.pre.sp = STACK_SIZE) => panicked
    /\ (last.instr.op = "Ret" /\ last.pre.sp = 0) => panicked
    /\ ~panicked => sp \in 0..STACK_SIZE

---------------------------------------------------------------------------
(* Drw. *)

\* all sequences over S of the lengths 1..n
RECURSIVE SeqsUpTo(_, _)
SeqsUpTo(S, n) ==
    IF n = 0 THEN {}
    ELSE LET shorter == SeqsUpTo(S, n - 1)
         IN {<<b>> : b \in S} \cup shorter \cup {Append(q, b) : q \in shorter, b \in S}

SpriteBytes == {128, 255, 15}
Sprites == SeqsUpTo(SpriteBytes, MaxSpriteLen) \cup {[k \in 1..15 |-> 255]}
Backgrounds == {<<>>, <<128>>, <<255, 255>>}
DrawXs == {0, 57, 60, 64, 255}
DrawYs == {0, 20, 31, 32, 255}

\* Draw the background bg at (cx, cy), then the sprite spr twice at the
\* same place; the x coordinate is in register xr.  The opcode 0000 (no
\* instruction) ends the program; the sprite data follows it.
DrawProgram(bg, spr, cx, cy, xr) ==
    LET data == PC_START + 16
    IN Asm(<<OpLdVal(xr, cx), OpLdVal(1, cy),
             OpLdI(data), OpDrw(xr, 1, Len(bg)),
             OpLdI(data + Len(bg)), OpDrw(xr, 1, Len(spr)), OpDrw(xr, 1, Len(spr)),
             0>>) \o bg \o spr

DrawRoms ==
    {DrawProgram(bg, spr, cx, cy, xr) :
        bg \in Backgrounds, spr \in Sprites, cx \in DrawXs, cy \in DrawYs, xr \in {0, 15}}

DrawNext == LoadOneOf(DrawRoms) \/ Cycle
SpecDraw == InitMachine /\ [][DrawNext]_vars

\* the last cycle executed Drw and returned
Drawn == last.instr.op = "Drw" /\ ~panicked

\* the operands of the last Drw: the coordinates and the sprite it read
DrawnX == last.pre.register_v[last.instr.x]
DrawnY == last.pre.register_v[last.instr.y]
DrawnSprite == MemSlice(last.pre.mem, last.pre.register_i, last.instr.n)

\* bit c of a sprite row, counted from the most significant
RowBit(byte, c) == (byte \div (2 ^ (7 - c))) % 2

\* the sprite cells (row r, column c) whose target pixel is on the display
InBounds(x, y, n) ==
    {rc \in (0..(n - 1)) \X (0..7) :
        y + rc[1] < DISPLAY_HEIGHT /\ x + rc[2] < DISPLAY_WIDTH}

\* every in-bounds sprite bit was xor-ed into its pixel
XorDrawn ==
    \A rc \in InBounds(DrawnX, DrawnY, last.instr.n) :
        PixelGet(pixels, DrawnY + rc[1], DrawnX + rc[2]) =
            BitXor1(PixelGet(last.pre.pixels, DrawnY + rc[1], DrawnX + rc[2]),
                    RowBit(DrawnSprite[rc[1] + 1], rc[2]))

\* some in-bounds sprite bit turned a set pixel off
TurnedOff ==
    \E rc \in InBounds(DrawnX, DrawnY, last.instr.n) :
        /\ PixelGet(last.pre.pixels, DrawnY + rc[1], DrawnX + rc[2]) = 1
        /\ RowBit(DrawnSprite[rc[1] + 1], rc[2]) = 1

\* C4 as claimed: Drw xors every in-bounds sprite bit into its pixel and
\* sets VF to 1 exactly when some bit write turned a set pixel off, so to
\* 0 on a blank display.
C4_DrawCollision ==
    Drawn =>
        /\ XorDrawn
        /\ register_v[15] = (IF TurnedOff THEN 1 ELSE 0)
        /\ (last.pre.pixels = {} => register_v[15] = 0)

\* the last two cycles drew the same sprite at the same coordinates
DrawnTwice ==
    /\ Drawn
    /\ last.prev.instr = last.instr
    /\ last.prev.pre.register_i = last.pre.register_i
    /\ last.prev.pre.register_v[last.instr.x] = DrawnX
    /\ last.prev.pre.register_v[last.instr.y] = DrawnY
    /\ last.prev.pre.mem = last.pre.mem

\* C5 as claimed: the second of two equal draws restores every pixel to
\* its value before the first and reports a collision (VF = 1) whenever
\* the first draw set a pixel.
C5_DrawTwice ==
    DrawnTwice =>
        /\ pixels = last.prev.pre.pixels
        /\ (last.pre.pixels \ last.prev.pre.pixels # {} => register_v[15] = 1)

\* the pixels the last instruction changed
Changed == (pixels \ last.pre.pixels) \cup (last.pre.pixels \ pixels)

\* the smaller of two numbers
Min(a, b) == IF a < b THEN a ELSE b

\* C6: Drw changes no pixel outside the columns x..min(x+7, 63) and the
\* rows y..min(y+n-1, 31) of the grid, so nothing wraps to the opposite
\* edge; the in-bounds bits of a clipped row are drawn; and no coordinate
\* in 0..255 makes the draw panic on an index outside the grid.
C6_DrawClipped ==
    (last.instr.op = "Drw" /\ last.pre.register_i + last.instr.n <= MEM_SIZE) =>
        /\ ~panicked
        /\ \A rc \in Changed :
              /\ rc[1] \in DrawnY..Min(DrawnY + last.instr.n - 1, DISPLAY_HEIGHT - 1)
              /\ rc[2] \in DrawnX..Min(DrawnX + 7, DISPLAY_WIDTH - 1)
        /\ XorDrawn

\* C6 witness: a row 0xFF drawn at x = 60 on a blank display lit the
\* columns 60..63 of its row and nothing else.
C6_Witness ==
    /\ Drawn
    /\ DrawnX = 60
    /\ DrawnY = 31
    /\ last.pre.pixels = {}
    /\ pixels = {<<31, 60>>, <<31, 61>>, <<31, 62>>, <<31, 63>>}

---------------------------------------------------------------------------
(* The arithmetic of the 8xy_ family. *)

\* load Vx with a and Vy with b (the second load wins when x = y), then
\* execute the operation op on (x, y)
AluProgram(op, x, y, a, b) == Asm(<<OpLdVal(x, a), OpLdVal(y, b), op, 0>>)

AluRoms ==
    UNION {{AluProgram(OpAddReg(x, y), x, y, a, b),
            AluProgram(OpSub(x, y), x, y, a, b),
            AluProgram(OpSubN(x, y), x, y, a, b),
            AluProgram(OpShr(x, y), x, y, a, b),
            AluProgram(OpShl(x, y), x, y, a, b)} :
           <<x, y, a, b>> \in RegIds \X RegIds \X Vals \X Vals}

AluNext == LoadOneOf(AluRoms) \/ Cycle
SpecAlu == InitMachine /\ [][AluNext]_vars

\* the last cycle executed the instruction named op and returned
Did(op) == last.instr.op = op /\ ~panicked

\* the registers before the last instruction
Old == last.pre.register_v

\* every register other than those of the set S is as it was
OthersKept(S) == \A r \in (0..15) \ S : register_v[r] = Old[r]

\* C8 as claimed: after AddReg { x, y }, Vx = (Vx + Vy) mod 256 and VF = 1
\* if the sum exceeds 255, else 0, for every x; no other register changes.
C8_AddRegAsClaimed ==
    Did("AddReg") =>
        LET sum == Old[last.instr.x] + Old[last.instr.y]
        IN /\ register_v[last.instr.x] = sum % 256
           /\ register_v[15] = (IF sum > 255 THEN 1 ELSE 0)
           /\ OthersKept({last.instr.x, 15})

\* C8 amended: after AddReg { x, y }, VF = 1 if Vx + Vy exceeds 255, else 0;
\* Vx = (Vx + Vy) mod 256 when x is not VF (when x is VF the flag, written
\* last, replaces the sum); no other register changes.
C8_AddReg ==
    Did("AddReg") =>
        LET sum == Old[last.instr.x] + Old[last.instr.y]
        IN /\ register_v[15] = (IF sum > 255 THEN 1 ELSE 0)
           /\ (last.instr.x # 15 => register_v[last.instr.x] = sum % 256)
           /\ OthersKept({last.instr.x, 15})

\* C8 witness: AddReg on V0 = 0xFF and V1 = 0x01 gave V0 = 0x00 and VF = 1.
C8_Witness ==
    /\ Did("AddReg")
    /\ last.instr.x = 0
    /\ last.instr.y = 1
    /\ Old[0] = 255
    /\ Old[1] = 1
    /\ register_v[0] = 0
    /\ register_v[15] = 1

\* C9 as claimed: Sub { x, y } sets Vx = (Vx - Vy) mod 256 and VF = 1 if
\* Vx >= Vy, else 0; SubN { x, y } sets Vy = (Vy - Vx) mod 256 and VF = 1 if
\* Vy >= Vx, else 0; for every x and y.
C9_SubAsClaimed ==
    /\ Did("Sub") =>
          /\ register_v[last.instr.x] = (Old[last.instr.x] - Old[last.instr.y]) % 256
          /\ register_v[15] = (IF Old[last.instr.x] >= Old[last.instr.y] THEN 1 ELSE 0)
    /\ Did("SubN") =>
          /\ register_v[last.instr.y] = (Old[last.instr.y] - Old[last.instr.x]) % 256
          /\ register_v[15] = (IF Old[last.instr.y] >= Old[last.instr.x] THEN 1 ELSE 0)

\* C9 amended: Sub { x, y } sets VF = 1 if Vx >= Vy, else 0, and, when x is
\* not VF, Vx = (Vx - Vy) mod 256; SubN { x, y } sets VF = 1 if Vy >= Vx,
\* else 0, and, when y is not VF, Vy = (Vy - Vx) mod 256.  When the
\* register written is VF, the flag, written last, replaces the difference.
C9_Sub ==
    /\ Did("Sub") =>
          /\ register_v[15] = (IF Old[last.instr.x] >= Old[last.instr.y] THEN 1 ELSE 0)
          /\ (last.instr.x # 15 =>
                register_v[last.instr.x] = (Old[last.instr.x] - Old[last.instr.y]) % 256)
          /\ OthersKept({last.instr.x, 15})
    /\ Did("SubN") =>
          /\ register_v[15] = (IF Old[last.instr.y] >= Old[last.instr.x] THEN 1 ELSE 0)
          /\ (last.instr.y # 15 =>
                register_v[last.instr.y] = (Old[last.instr.y] - Old[last.instr.x]) % 256)
          /\ OthersKept({last.instr.y, 15})

\* C9 witness: Sub on V0 = 0x03 and V1 = 0x05 gave V0 = 0xFE and VF = 0.
C9_Witness ==
    /\ Did("Sub")
    /\ last.instr.x = 0
    /\ last.instr.y = 1
    /\ Old[0] = 3
    /\ Old[1] = 5
    /\ register_v[0] = 254
    /\ register_v[15] = 0

\* C10 as claimed: Shr { x } sets Vx = Vx >> 1 and VF = the lowest bit of
\* the old Vx; Shl { x } sets Vx = (Vx << 1) mod 256 and VF = the highest
\* bit of the old Vx.  Stated for x other than VF, where the two results
\* go to different registers.
C10_Shifts ==
    /\ (Did("Shr") /\ last.instr.x # 15) =>
          /\ register_v[last.instr.x] = Old[last.instr.x] \div 2
          /\ register_v[15] = Old[last.instr.x] % 2
    /\ (Did("Shl") /\ last.instr.x # 15) =>
          /\ register_v[last.instr.x] = (Old[last.instr.x] * 2) % 256
          /\ register_v[15] = Old[last.instr.x] \div 128

---------------------------------------------------------------------------
(* Store and Read. *)

\* Point I at i, load V0..Vx with a, a + 1, .., store them, overwrite them
\* with b, b + 1, .., and read them back.
MemProgram(x, i, a, b) ==
    Asm(<<OpLdI(i)>>
        \o [k \in 1..(x + 1) |-> OpLdVal(k - 1, a + (k - 1))]
        \o <<OpStore(x)>>
        \o [k \in 1..(x + 1) |-> OpLdVal(k - 1, b + (k - 1))]
        \o <<OpRead(x), 0>>)

MemRoms ==
    {MemProgram(x, i, a, b) :
        x \in (0..(MaxReg + 1)) \cup {15},
        i \in {0, 768, MEM_SIZE - 16},
        a \in {1, 100}, b \in {0, 200}}

MemNext == LoadOneOf(MemRoms) \/ Cycle
SpecMem == InitMachine /\ [][MemNext]_vars

\* C7 as claimed: Store { x }, then any overwriting of V0..Vx, then
\* Read { x } with the same I, where I + x < 4096, leaves in each of V0..Vx,
\* Vx included, the value it held at the Store.
C7_StoreReadRoundTrip ==
    (/\ Did("Read")
     /\ stored.valid
     /\ stored.x = last.instr.x
     /\ stored.register_i = last.pre.register_i
     /\ stored.register_i + stored.x < MEM_SIZE) =>
        \A k \in 0..last.instr.x : register_v[k] = stored.register_v[k]

---------------------------------------------------------------------------
(* Bcd. *)

\* Load Vx with v, point I at i, and store the decimal digits of Vx.
BcdProgram(x, v, i) == Asm(<<OpLdVal(x, v), OpLdI(i), OpBcd(x), 0>>)

\* where I points: the start of memory, the glyph area, the program itself
\* (the Bcd opcode and the bytes after it), free memory, and the last
\* addresses of memory on both sides of I + 2 = 4095
BcdAddrs == {0, 80, PC_START + 4, PC_START + 5, 768} \cup ((MEM_SIZE - 5)..(MEM_SIZE - 1))

BcdRoms ==
    {BcdProgram(x, v, i) : x \in RegIds, v \in 0..(U8_MOD - 1), i \in BcdAddrs}

BcdNext == LoadOneOf(BcdRoms) \/ Cycle
SpecBcd == InitMachine /\ [][BcdNext]_vars

\* C11: Bcd { x } with I + 2 < 4096 returns and leaves the hundreds, tens and
\* ones decimal digits of Vx in mem[I], mem[I + 1], mem[I + 2]; every other
\* byte of memory, every register, I, the timers, the stack and the display
\* are as before.
C11_Bcd ==
    (last.instr.op = "Bcd" /\ last.pre.register_i + 2 < MEM_SIZE) =>
        LET v == last.pre.register_v[last.instr.x]
            i == last.pre.register_i
        IN /\ ~panicked
           /\ MemGet(mem, i) = v \div 100
           /\ MemGet(mem, i + 1) = (v \div 10) % 10
           /\ MemGet(mem, i + 2) = v % 10
           /\ \A a \in ((DOMAIN mem) \cup (DOMAIN last.pre.mem)) \ (i..(i + 2)) :
                  MemGet(mem, a) = MemGet(last.pre.mem, a)
           /\ register_v = last.pre.register_v
           /\ register_i = last.pre.register_i
           /\ <<delay, sound, sp, stack, pixels>> =
                  <<last.pre.delay, last.pre.sound, last.pre.sp, last.pre.stack,
                    last.pre.pixels>>

\* C11 witness: Bcd on Vx = 234 left 2, 3, 4 at I, I + 1, I + 2.
C11_Witness ==
    /\ Did("Bcd")
    /\ last.pre.register_v[last.instr.x] = 234
    /\ MemGet(mem, register_i) = 2
    /\ MemGet(mem, register_i + 1) = 3
    /\ MemGet(mem, register_i + 2) = 4

---------------------------------------------------------------------------
(* Accesses at the end of memory. *)

\* Point I at i + v (LdI reaches 0xFFF, AddI goes beyond), then run op.
EdgeProgram(i, v, op) ==
    Asm(<<OpLdVal(0, v), OpLdVal(1, 7), OpLdI(i), OpAddI(0), op, OpCls, 0>>)

\* the instructions that address memory through I
EdgeOps ==
    {OpDrw(0, 0, n) : n \in 0..MaxSpriteLen}
        \cup {OpBcd(x) : x \in 0..MaxReg}
        \cup {OpStore(x) : x \in 0..(MaxReg + 1)}
        \cup {OpRead(x) : x \in 0..(MaxReg + 1)}

\* a program that jumps to addr, where the opcode op lies: the last
\* instruction slot of memory is 0xFFE
JumpToEnd(addr, op) ==
    LET jump == Asm(<<OpJump(addr)>>)
        slot == MEM_SIZE - 2 - PC_START
    IN [k \in 1..(MEM_SIZE - PC_START) |->
           IF k <= 2 THEN jump[k]
           ELSE IF k = slot + 1 THEN op \div 256
           ELSE IF k = slot + 2 THEN op % 256
           ELSE 0]

EdgeRoms ==
    {EdgeProgram(i, v, op) :
        i \in (MEM_SIZE - 4)..(MEM_SIZE - 1), v \in 0..(ValEdge + 1), op \in EdgeOps}
        \cup {JumpToEnd(addr, op) :
                addr \in (MEM_SIZE - 4)..(MEM_SIZE - 1), op \in {OpCls, OpLdVal(0, 1)}}

EdgeNext == LoadOneOf(EdgeRoms) \/ Cycle
SpecEdge == InitMachine /\ [][EdgeNext]_vars

\* the registers Store { x } and Read { x } transfer according to the
\* instruction table: V0..Vx inclusive
TableRange(x) == 0..x

\* The addresses the last cycle has to access: the two bytes of the opcode
\* and, through I, the rows of the sprite (Drw), the three digits (Bcd) and
\* the bytes of the registers in Range(x) (Store, Read)
Accessed(Range(_)) ==
    LET i == last.pre.register_i
        instr == last.instr
    IN {last.pre.pc, last.pre.pc + 1}
         \cup (CASE instr.op = "Drw" -> i..(i + instr.n - 1)
                 [] instr.op = "Bcd" -> i..(i + 2)
                 [] instr.op \in {"Store", "Read"} -> {i + k : k \in Range(instr.x)}
                 [] OTHER -> {})

\* C12 as claimed: a cycle whose opcode fetch or whose instruction (Drw,
\* Bcd, Store, Read, with the operands the instruction table gives them)
\* has to access an address >= 4096 ends the run in a fault.
C12_OutOfBoundsFaults ==
    (cycles > 0 /\ \E a \in Accessed(TableRange) : a >= MEM_SIZE) => panicked

\* The same for the addresses the code does access (Store and Read stop
\* one register short): the bounds checks of the slices and indices.
OutOfBoundsFaultsAsCoded ==
    (cycles > 0 /\ \E a \in Accessed(LoopRange) : a >= MEM_SIZE) => panicked

---------------------------------------------------------------------------
(* The skip instructions. *)

\* Load Vx with a and Vy with b, then run the skip instruction op; the two
\* instructions after it are both executable.
SkipProgram(op, x, y, a, b) ==
    Asm(<<OpLdVal(x, a), OpLdVal(y, b), op, OpCls, OpCls, 0>>)

SkipRoms ==
    UNION {{SkipProgram(OpSeVal(x, b), x, y, a, b),
            SkipProgram(OpSneVal(x, b), x, y, a, b),
            SkipProgram(OpSeReg(x, y), x, y, a, b),
            SkipProgram(OpSneReg(x, y), x, y, a, b)} :
           <<x, y, a, b>> \in RegIds \X RegIds \X Vals \X Vals}

SkipNext == LoadOneOf(SkipRoms) \/ Cycle
SpecSkip == InitMachine /\ [][SkipNext]_vars

\* the instructions that skip, and those that set the program counter
SkipOps == {"SeVal", "SneVal", "SeReg", "SneReg"}
JumpOps == {"Jump", "Call", "Ret"}

\* the condition of the skip instruction instr on the registers v, as the
\* instruction table gives it
SkipCondition(instr, v) ==
    CASE instr.op = "SeVal" -> v[instr.x] = instr.k
      [] instr.op = "SneVal" -> v[instr.x] # instr.k
      [] instr.op = "SeReg" -> v[instr.x] = v[instr.y]
      [] instr.op = "SneReg" -> v[instr.x] # v[instr.y]

\* the last cycle executed an instruction and returned
Ran == cycles > 0 /\ ~panicked

\* the rule for the skip instructions in Ops and for the instructions that
\* neither skip nor set the program counter
SkipRuleFor(Ops) ==
    Ran =>
        /\ last.instr.op \in Ops =>
              pc = last.pre.pc + (IF SkipCondition(last.instr, Old) THEN 4 ELSE 2)
        /\ last.instr.op \notin (SkipOps \cup JumpOps) => pc = last.pre.pc + 2

\* C13 as claimed: a cycle that executes SeVal, SneVal, SeReg or SneReg at
\* address p leaves PC = p + 4 when the condition holds (Vx = k, Vx # k,
\* Vx = Vy, Vx # Vy) and PC = p + 2 when it does not; every instruction
\* that is not a jump, call, return or skip leaves PC = p + 2.
C13_SkipRule == SkipRuleFor(SkipOps)

\* The rule without SneReg.
SkipRuleButSneReg == SkipRuleFor(SkipOps \ {"SneReg"})

---------------------------------------------------------------------------
(* Ret against the calls pending. *)

\* the address pushed by the most recent Call not yet returned from, in a
\* machine s with s.sp >= 1: Stack::push wrote it to stack[sp] and then
\* incremented sp
PendingTop(s) == s.stack[s.sp - 1]

\* C14 as claimed: a Ret with 1..16 calls pending returns, removes the
\* address pushed by the most recent pending Call and sets the program
\* counter from it (that address, or the instruction after it when the +2
\* advance is counted on top).
C14_RetLifo ==
    (last.instr.op = "Ret" /\ last.pre.sp \in 1..STACK_SIZE) =>
        /\ ~panicked
        /\ sp = last.pre.sp - 1
        /\ pc \in {PendingTop(last.pre), PendingTop(last.pre) + 2}

\* What Ret does instead: it sets the program counter from the slot above
\* the pending addresses.
RetReadsAbove ==
    (Did("Ret") /\ last.pre.sp \in 1..(STACK_SIZE - 1)) =>
        /\ sp = last.pre.sp - 1
        /\ pc = last.pre.stack[last.pre.sp]

---------------------------------------------------------------------------
(* Or, And, Xor. *)

LogicRoms ==
    UNION {{AluProgram(OpOr(x, y), x, y, a, b),
            AluProgram(OpAnd(x, y), x, y, a, b),
            AluProgram(OpXor(x, y), x, y, a, b)} :
           <<x, y, a, b>> \in RegIds \X RegIds \X Vals \X Vals}

LogicNext == LoadOneOf(LogicRoms) \/ Cycle
SpecLogic == InitMachine /\ [][LogicNext]_vars

\* bit j (0 the lowest) of the 8-bit value a
Bit(a, j) == (a \div (2 ^ j)) % 2

\* the 8-bit value whose bit j is F(bit j of a, bit j of b)
RECURSIVE Bitwise(_, _, _, _)
Bitwise(F(_, _), a, b, j) ==
    IF j = 8 THEN 0
    ELSE F(Bit(a, j), Bit(b, j)) * (2 ^ j) + Bitwise(F, a, b, j + 1)

OrBit(p, q) == IF p + q >= 1 THEN 1 ELSE 0
AndBit(p, q) == p * q
XorBit(p, q) == (p + q) % 2

\* after the instruction named op, Vx holds the combination by F of the old
\* Vx and Vy, and no other register has changed
Combines(op, F(_, _)) ==
    Did(op) =>
        /\ register_v[last.instr.x] =
              Bitwise(F, Old[last.instr.x], Old[last.instr.y], 0)
        /\ OthersKept({last.instr.x})

\* C15 as claimed: Or, And and Xor { x, y } set Vx to the bitwise OR, AND
\* and exclusive-OR of the old Vx and Vy, and change no other register.
C15_Logic ==
    /\ Combines("Or", OrBit)
    /\ Combines("And", AndBit)
    /\ Combines("Xor", XorBit)

\* Or and And alone.
OrAndCombine == Combines("Or", OrBit) /\ Combines("And", AndBit)

\* What Xor does instead: the bitwise AND.
XorIsAnd == Combines("Xor", AndBit)

---------------------------------------------------------------------------
(* Store and Read, each on its own. *)

\* Store { x } wrote exactly the registers of Range(x) to mem[I + k] and
\* Read { x } loaded exactly the registers of Range(x) from mem[I + k];
\* the rest of memory and of the registers, and I, are as before.
Transfers(Range(_)) ==
    LET i == last.pre.register_i
        x == last.instr.x
        moved == {i + k : k \in Range(x)}
    IN /\ Did("Store") =>
             /\ \A k \in Range(x) : MemGet(mem, i + k) = Old[k]
             /\ \A a \in ((DOMAIN mem) \cup (DOMAIN last.pre.mem)) \ moved :
                    MemGet(mem, a) = MemGet(last.pre.mem, a)
             /\ register_v = Old
             /\ register_i = i
       /\ Did("Read") =>
             /\ \A k \in Range(x) : register_v[k] = MemGet(last.pre.mem, i + k)
             /\ OthersKept(Range(x))
             /\ mem = last.pre.mem
             /\ register_i = i

\* C16 as claimed: Store { x } writes exactly V0..Vx inclusive to
\* mem[I..I + x] and Read { x } loads exactly V0..Vx inclusive from
\* mem[I..I + x]; memory outside the range and the registers above Vx are
\* unchanged.
C16_StoreReadRange == Transfers(TableRange)

\* What Store and Read do instead: they transfer V0..V(x-1).
StoreReadOneShort == Transfers(LoopRange)

---------------------------------------------------------------------------
(* Jump and Call to every address. *)

\* every 12-bit address
Addrs == 0..(MEM_SIZE - 1)

JumpRoms ==
    {Asm(<<OpJump(addr)>>) : addr \in Addrs} \cup {Asm(<<OpCall(addr)>>) : addr \in Addrs}

JumpNext == LoadOneOf(JumpRoms) \/ Cycle
SpecJump == InitMachine /\ [][JumpNext]_vars

\* the last cycle fetched Jump, or Call with room on the stack, whether or
\* not it returned
Jumped ==
    \/ last.instr.op = "Jump"
    \/ last.instr.op = "Call" /\ last.pre.sp \in 0..(STACK_SIZE - 1)

\* the cycle of a Jump or Call to an address in Targets returns with the
\* program counter at that address
JumpsTo(Targets) ==
    (Jumped /\ last.instr.addr \in Targets) =>
        /\ ~panicked
        /\ pc = last.instr.addr

\* C17 as claimed: for every 12-bit addr, 0x000 and 0x001 included, the
\* cycle that executes Jump { addr } or Call { addr } returns with the
\* program counter equal to addr.
C17_JumpTarget == JumpsTo(Addrs)

\* The targets from 0x002 on are reached in both builds, and all of them
\* in the build that wraps.
JumpsFromTwo == JumpsTo(Addrs \ {0, 1}) /\ (~overflow_checks => JumpsTo(Addrs))

\* C18 as claimed: the program counter starts at 0x200 and is, in every
\* state of a running machine, even and less than 4096.
C18_PcInvariant ==
    /\ cycles = 0 => pc = PC_START
    /\ ~panicked => (pc % 2 = 0 /\ pc < MEM_SIZE)

---------------------------------------------------------------------------
(* The index register. *)

\* Load V0 and Vx with v, point I at a, then run op.
IndexProgram(x, v, a, op) ==
    Asm(<<OpLdVal(0, v), OpLdVal(x, v), OpLdI(a), op, OpCls, 0>>)

\* addresses at both ends of memory and at the program
IndexAddrs == {0, PC_START, MEM_SIZE - 256, MEM_SIZE - 255, MEM_SIZE - 2, MEM_SIZE - 1}

IndexRoms ==
    UNION {{IndexProgram(x, v, a, OpAddI(x)), IndexProgram(x, v, a, OpJpOfs(b))} :
           <<x, v, a, b>> \in RegIds \X Vals \X IndexAddrs \X IndexAddrs}

IndexNext == LoadOneOf(IndexRoms) \/ Cycle
SpecIndex == InitMachine /\ [][IndexNext]_vars

\* C19 as claimed: in every state of a running machine I is a 12-bit
\* address, less than 4096: LdI, JpOfs and AddI either leave it so or end
\* the run in a fault.
C19_IndexInvariant == ~panicked => register_i \in 0..(MEM_SIZE - 1)

\* What the three instructions do: I = addr, I = addr + V0, I = I + Vx, with
\* no fault (the sums stay below 2^16 here).
IndexSet ==
    /\ (last.instr.op \in {"LdI", "JpOfs", "AddI"} /\ cycles > 0) => ~panicked
    /\ Did("LdI") => register_i = last.instr.addr
    /\ Did("JpOfs") => register_i = last.instr.addr + Old[0]
    /\ Did("AddI") => register_i = last.pre.register_i + Old[last.instr.x]

---------------------------------------------------------------------------
(* The machine before a program is loaded. *)

\* const DIGITS: [[u8; 5]; 16], the sprites of the digits 0..F; DIGITS[d] of
\* the source is DIGITS[d + 1] here.
DIGITS ==
    << <<240, 144, 144, 144, 240>>, <<32, 96, 32, 32, 112>>,
       <<240, 16, 240, 128, 240>>, <<240, 16, 240, 16, 240>>,
       <<144, 144, 240, 16, 16>>, <<240, 128, 240, 16, 240>>,
       <<240, 128, 240, 144, 240>>, <<240, 16, 32, 64, 64>>,
       <<240, 144, 240, 144, 240>>, <<240, 144, 240, 16, 240>>,
       <<240, 144, 240, 144, 144>>, <<224, 144, 224, 144, 224>>,
       <<240, 128, 128, 128, 240>>, <<224, 144, 144, 144, 224>>,
       <<240, 128, 240, 128, 240>>, <<240, 128, 240, 128, 128>> >>

\* the number of bytes of the glyph table
GlyphBytes == Len(DIGITS) * Len(DIGITS[1])

\* memory holds the sprite of digit d at base + 5 * d, for every digit, and
\* zero everywhere else
GlyphsAt(base) ==
    /\ \A d \in 0..15 : \A j \in 0..4 : MemGet(mem, base + 5 * d + j) = DIGITS[d + 1][j + 1]
    /\ \A a \in DOMAIN mem : a \in base..(base + GlyphBytes - 1)

\* the state of the machine apart from memory, as Chip8::new leaves it
FreshButMemory ==
    /\ register_v = [r \in 0..15 |-> 0]
    /\ register_i = 0
    /\ delay = 0
    /\ sound = 0
    /\ pc = PC_START
    /\ sp = 0
    /\ pixels = {}

\* C20 as claimed: after Chip8::new the V registers, I and the timers are
\* 0, PC = 0x200, the stack is empty, the display is blank, and memory is
\* zero except for a glyph region below 0x200 that holds the 16 digit
\* sprites, digit d at the region's base + 5 * d.
C20_InitialState ==
    (~loaded /\ cycles = 0) =>
        /\ FreshButMemory
        /\ \E base \in 0..(PC_START - GlyphBytes) : GlyphsAt(base)

\* What Chip8::new leaves: the same, with memory zero everywhere.
InitialStateAllZero ==
    (~loaded /\ cycles = 0) => (FreshButMemory /\ DOMAIN mem = {})

=============================================================================
